---- MODULE Spec2Model ----
(***************************************************************************)
(* Release pipeline of the release manager: version policy, tag            *)
(* dereferencing, tag-to-tag commit range, work-item extraction and        *)
(* resolution, per-repository fault isolation and batch deduplication.     *)
(*                                                                         *)
(* JavaScript strings are modelled as tuples of one-character strings, so  *)
(* that splitting, parsing, formatting and pattern matching are computed   *)
(* and not assumed.                                                        *)
(***************************************************************************)
EXTENDS Integers, Sequences, FiniteSets, TLC

\* ------------------------------------------------------------------ bounds
MaxRepos == 2
MaxVer == 11
MaxCommits == 2
MaxListLen == 3

\* --------------------------------------------------------- strings, numbers
Digits == <<"0", "1", "2", "3", "4", "5", "6", "7", "8", "9">>

IsDigit(ch) == \E i \in 1..10 : Digits[i] = ch

DigitValue(ch) == (CHOOSE i \in 1..10 : Digits[i] = ch) - 1

Range(s) == {s[i] : i \in 1..Len(s)}

\* JavaScript undefined, kept apart from every string of characters
Undefined == <<"undefined">>

\* the numeric value NaN; every other number of the model is a natural
NaN == -1

NoReleases == <<"N", "o", " ", "r", "e", "l", "e", "a", "s", "e", "s">>

ErrorLoading == <<"E", "r", "r", "o", "r", " ", "l", "o", "a", "d", "i", "n", "g">>

\* Number(s) for a string s: "" is 0, a run of digits its decimal value,
\* anything else (also undefined) NaN
RECURSIVE DigitsValue(_)
DigitsValue(s) ==
    IF s = <<>> THEN 0
    ELSE 10 * DigitsValue(SubSeq(s, 1, Len(s) - 1)) + DigitValue(s[Len(s)])

Number(s) ==
    IF s = Undefined THEN NaN
    ELSE IF \A i \in 1..Len(s) : IsDigit(s[i]) THEN DigitsValue(s)
    ELSE NaN

\* `${n}` for a number n
RECURSIVE NatToString(_)
NatToString(n) ==
    IF n < 10 THEN <<Digits[n + 1]>>
    ELSE NatToString(n \div 10) \o <<Digits[(n % 10) + 1]>>

NumberToString(n) == IF n = NaN THEN <<"N", "a", "N">> ELSE NatToString(n)

\* NaN + 1 is NaN
PlusOne(n) == IF n = NaN THEN NaN ELSE n + 1

\* s.split('.')
RECURSIVE SplitDot(_, _)
SplitDot(s, cur) ==
    IF s = <<>> THEN <<cur>>
    ELSE IF Head(s) = "." THEN <<cur>> \o SplitDot(Tail(s), <<>>)
    ELSE SplitDot(Tail(s), Append(cur, Head(s)))

Split(s) == SplitDot(s, <<>>)

\* array[i] of a destructuring assignment: undefined past the end
ElementAt(arr, i) == IF i <= Len(arr) THEN arr[i] ELSE Undefined

\* ------------------------------------------------------------ VersionPolicy
IsSentinel(currentVersion) ==
    \/ currentVersion = Undefined
    \/ currentVersion = <<>>
    \/ currentVersion = NoReleases
    \/ currentVersion = ErrorLoading

calculateNewVersion_NoReset(currentVersion, bumpType) ==
    IF IsSentinel(currentVersion)
    THEN IF bumpType = "major" THEN <<"1", ".", "0">> ELSE <<"0", ".", "1">>
    ELSE LET parts == Split(currentVersion)
             major == Number(ElementAt(parts, 1))
             minor == Number(ElementAt(parts, 2))
         IN IF bumpType = "major"
            THEN NumberToString(PlusOne(major)) \o <<".">> \o NumberToString(minor)
            ELSE NumberToString(major) \o <<".">> \o NumberToString(PlusOne(minor))

calculateNewVersion(currentVersion, bumpType) ==
    IF IsSentinel(currentVersion)
    THEN IF bumpType = "major" THEN <<"1", ".", "0">> ELSE <<"0", ".", "1">>
    ELSE LET parts == Split(currentVersion)
             major == Number(ElementAt(parts, 1))
             minor == Number(ElementAt(parts, 2))
         IN IF bumpType = "major"
            THEN NumberToString(PlusOne(major)) \o <<".", "0">>
            ELSE NumberToString(major) \o <<".">> \o NumberToString(PlusOne(minor))

\* --------------------------------------------------------------- retryUtils
maxAttempts == 3

delayMs == 1000

backoffMultiplier == 2

\* Math.pow(base, exponent) for a natural exponent
RECURSIVE Pow(_, _)
Pow(base, exponent) == IF exponent = 0 THEN 1 ELSE base * Pow(base, exponent - 1)

\* An invocation of a remote call ends "ok" or with the message of its error.
\* retryAsync(fn) over the outcomes the successive invocations of fn would
\* have: "ok" at the first success, else the error of the last attempt.
RetryFirstOk(attempts) ==
    IF \E i \in 1..maxAttempts : attempts[i] = "ok"
    THEN CHOOSE i \in 1..maxAttempts :
            /\ attempts[i] = "ok"
            /\ \A j \in 1..(i - 1) : attempts[j] # "ok"
    ELSE 0

retryAsync(attempts) ==
    IF RetryFirstOk(attempts) # 0 THEN "ok" ELSE attempts[maxAttempts]

\* how many times retryAsync invoked fn
RetryRequests(attempts) ==
    IF RetryFirstOk(attempts) # 0 THEN RetryFirstOk(attempts) ELSE maxAttempts

\* a retried call: what it ends with and the requests it issued
Retried(attempts) ==
    [outcome |-> retryAsync(attempts), requests |-> RetryRequests(attempts)]

\* what the network can do to one HTTP request: deliver it, or fail it
TransientErrors == {"API Error: 503", "API Error: 500"}

Attempts == [1..maxAttempts -> {"ok"} \cup TransientErrors]

\* what a retried request can end with, over every way its attempts can go
RetryOutcomes == {retryAsync(attempts) : attempts \in Attempts}

\* ------------------------------------------------------ CommitRangeComputer
\* findIndex: the first position of commitId in list, 0 when absent (JavaScript
\* counts from 0 and answers -1)
FindIndex(list, commitId) ==
    IF \E i \in 1..Len(list) : list[i] = commitId
    THEN CHOOSE i \in 1..Len(list) :
            /\ list[i] = commitId
            /\ \A j \in 1..(i - 1) : list[j] # commitId
    ELSE 0

FilterCommits_Inclusive(list, oldCommitId) ==
    LET oldCommitIndex == FindIndex(list, oldCommitId)
    IN IF oldCommitIndex = 0 THEN list ELSE SubSeq(list, 1, oldCommitIndex)

\* the filter of getCommitsBetweenTags on the fetched list
FilterCommits(list, oldCommitId) ==
    LET oldCommitIndex == FindIndex(list, oldCommitId)
    IN IF oldCommitIndex = 0 THEN list ELSE SubSeq(list, 1, oldCommitIndex - 1)

\* -------------------------------------------------------------- RefResolver
UndefinedId == "undefined"

\* the shapes a response to the annotated-tag request can have
TagOk(target) == [kind |-> "ok", target |-> target]

TagError == [kind |-> "error", target |-> UndefinedId]

TagNoTaggedObject == [kind |-> "noTaggedObject", target |-> UndefinedId]

TagNoObjectId == [kind |-> "noObjectId", target |-> UndefinedId]

resolveTagCommitId_Rethrow(tagRefObjectId, response) ==
    IF response.kind \in {"error", "noTaggedObject"}
    THEN [raised |-> TRUE, value |-> UndefinedId]
    ELSE [raised |-> FALSE, value |-> response.target]

\* response: what getTagObject ends with after its retries
resolveTagCommitId(tagRefObjectId, response) ==
    IF response.kind \in {"error", "noTaggedObject"}
    THEN [raised |-> FALSE, value |-> tagRefObjectId]
    ELSE [raised |-> FALSE, value |-> response.target]

\* --------------------------------------------------------- WorkItemExtractor
UpperCase == <<"A", "B", "C", "D", "E", "F", "G", "H", "I", "J", "K", "L", "M",
               "N", "O", "P", "Q", "R", "S", "T", "U", "V", "W", "X", "Y", "Z">>

LowerCase == <<"a", "b", "c", "d", "e", "f", "g", "h", "i", "j", "k", "l", "m",
               "n", "o", "p", "q", "r", "s", "t", "u", "v", "w", "x", "y", "z">>

ToLower(ch) ==
    IF \E i \in 1..26 : UpperCase[i] = ch
    THEN LowerCase[CHOOSE i \in 1..26 : UpperCase[i] = ch]
    ELSE ch

\* does pattern (in lower case) match text at position i, ignoring case
MatchesAt(text, i, pattern) ==
    /\ i + Len(pattern) - 1 <= Len(text)
    /\ \A k \in 1..Len(pattern) : ToLower(text[i + k - 1]) = pattern[k]

DigitAt(text, i) == i <= Len(text) /\ IsDigit(text[i])

\* (\d+) at position i: the longest run of digits starting there
RECURSIVE DigitRun(_, _)
DigitRun(text, i) ==
    IF DigitAt(text, i) THEN <<text[i]>> \o DigitRun(text, i + 1) ELSE <<>>

MergedPrPattern == <<"m", "e", "r", "g", "e", "d", " ", "p", "r", " ">>

\* comment.match(/Merged PR (\d+)/i): group 1 of the first match, <<>> for null
PrMatch(comment) ==
    LET hits == {i \in 1..Len(comment) :
                    /\ MatchesAt(comment, i, MergedPrPattern)
                    /\ DigitAt(comment, i + Len(MergedPrPattern))}
    IN IF hits = {} THEN <<>>
       ELSE DigitRun(comment, (CHOOSE i \in hits : \A j \in hits : i <= j)
                              + Len(MergedPrPattern))

\* comment.matchAll(/#(\d+)|AB#(\d+)/gi): match[1] || match[2] of each match,
\* scanning from position i
RECURSIVE WiMatches(_, _)
WiMatches(comment, i) ==
    IF i > Len(comment) THEN <<>>
    ELSE IF comment[i] = "#" /\ DigitAt(comment, i + 1)
    THEN LET id == DigitRun(comment, i + 1)
         IN <<id>> \o WiMatches(comment, i + 1 + Len(id))
    ELSE IF MatchesAt(comment, i, <<"a", "b", "#">>) /\ DigitAt(comment, i + 3)
    THEN LET id == DigitRun(comment, i + 3)
         IN <<id>> \o WiMatches(comment, i + 3 + Len(id))
    ELSE WiMatches(comment, i + 1)

\* Set.add on a Set kept in insertion order
SetAdd(set, x) == IF x \in Range(set) THEN set ELSE Append(set, x)

RECURSIVE SetAddAll(_, _)
SetAddAll(set, xs) ==
    IF xs = <<>> THEN set ELSE SetAddAll(SetAdd(set, Head(xs)), Tail(xs))

\* ------------------------------------------------------- the remote's data
\* the commits of the remote history; a listing names them newest first
CommitIds == {"c1", "c2", "c3"}

CommitComment(c) ==
    CASE c = "c1" -> <<"M", "e", "r", "g", "e", "d", " ", "P", "R", " ", "4", "2",
                       ":", " ", "f", "i", "x", "e", "s", " ", "A", "B", "#", "1",
                       "0", "0", " ", "a", "n", "d", " ", "#", "2", "0", "0">>
      [] c = "c2" -> <<"f", "i", "x", " ", "#", "7", " ", "a", "n", "d", " ",
                       "a", "b", "#", "0", "0", "7">>
      [] OTHER    -> <<"b", "u", "m", "p", " ", "d", "e", "p", "s">>

\* commit.workItems, the explicit links carried by the commit record (<<>> when
\* the field is absent or empty)
CommitWorkItems(c) ==
    CASE c = "c1" -> << <<"3", "0", "0">> >>
      [] c = "c2" -> << <<"7">> >>
      [] OTHER    -> <<>>

\* what the remote links to the commit (commits/{id}/workitems)
CommitLinkedIds(c) ==
    CASE c = "c3" -> << <<"7">> >>
      [] OTHER    -> <<>>

\* what the remote links to a pull request (pullrequests/{id}/workitems)
PullRequestLinkedIds(pr) ==
    IF pr = <<"4", "2">> THEN << <<"4", "0", "0">> >> ELSE <<>>

LinkedWorkItems_Rethrow(linked, outcome) ==
    IF outcome = "ok" THEN [raised |-> FALSE, value |-> linked]
    ELSE [raised |-> TRUE, value |-> <<>>]

\* the body shared by getCommitWorkItems and getPullRequestWorkItems: the ids
\* of the response, and [] from the catch when the retried request failed
LinkedWorkItems(linked, outcome) ==
    IF outcome = "ok" THEN [raised |-> FALSE, value |-> linked]
    ELSE [raised |-> FALSE, value |-> <<>>]

getPullRequestWorkItems(pr, outcome) == LinkedWorkItems(PullRequestLinkedIds(pr), outcome)

\* the passes tried in turn, a later one only when the earlier found nothing
ExtractFromCommit_FirstPassWins(workItemIds, c, apiIds) ==
    LET prMatch == PrMatch(CommitComment(c))
    IN IF CommitWorkItems(c) # <<>> THEN SetAddAll(workItemIds, CommitWorkItems(c))
       ELSE IF prMatch # <<>> THEN SetAdd(workItemIds, prMatch)
       ELSE IF WiMatches(CommitComment(c), 1) # <<>>
       THEN SetAddAll(workItemIds, WiMatches(CommitComment(c), 1))
       ELSE SetAddAll(workItemIds, apiIds)

\* passes 1 to 4 of the extraction loop on one commit; apiIds is what
\* getCommitWorkItems returned for it
ExtractFromCommit(workItemIds, c, apiIds) ==
    LET linked  == SetAddAll(workItemIds, CommitWorkItems(c))
        prMatch == PrMatch(CommitComment(c))
        withPr  == IF prMatch # <<>> THEN SetAdd(linked, prMatch) ELSE linked
        inline  == SetAddAll(withPr, WiMatches(CommitComment(c), 1))
    IN SetAddAll(inline, apiIds)

\* getCommitWorkItems: the linked ids, [] when the request fails after retries
getCommitWorkItems(c, outcome) == LinkedWorkItems(CommitLinkedIds(c), outcome).value

\* ------------------------------------------------------------------- refs
RefsPrefix == <<"r", "e", "f", "s", "/">>

MainFilter == <<"h", "e", "a", "d", "s", "/", "m", "a", "i", "n">>

TagsFilter == <<"t", "a", "g", "s">>

MainRef == <<"r", "e", "f", "s", "/", "h", "e", "a", "d", "s", "/", "m", "a", "i", "n">>

\* a branch whose name begins like that of main
MainLegacyRef == MainRef \o <<"-", "l", "e", "g", "a", "c", "y">>

ReleaseBranchPrefix == <<"r", "e", "f", "s", "/", "h", "e", "a", "d", "s", "/",
                         "r", "e", "l", "e", "a", "s", "e", "/">>

TagRefPrefix == <<"r", "e", "f", "s", "/", "t", "a", "g", "s", "/">>

BranchName(version) == ReleaseBranchPrefix \o version \o <<".", "x">>

TagRefName(tag) == TagRefPrefix \o tag

StartsWith(s, prefix) ==
    /\ Len(prefix) <= Len(s)
    /\ SubSeq(s, 1, Len(prefix)) = prefix

\* refs?filter=...: the refs whose name starts with refs/ and the filter
ListRefs(repoRefs, filter) ==
    SelectSeq(repoRefs, LAMBDA r : StartsWith(r.name, RefsPrefix \o filter))

HasRef(repoRefs, name) == \E i \in 1..Len(repoRefs) : repoRefs[i].name = name

\* tags.find((t) => t.name === name)
FindRef(list, name) == list[CHOOSE i \in 1..Len(list) : list[i].name = name]

\* ----------------------------------------------------- latest release version
ReleaseFilter == <<"h", "e", "a", "d", "s", "/", "r", "e", "l", "e", "a", "s", "e">>

\* does text hold pattern at position i, character for character
SubstringAt(text, i, pattern) ==
    /\ i + Len(pattern) - 1 <= Len(text)
    /\ SubSeq(text, i, i + Len(pattern) - 1) = pattern

\* (\d+\.\d+)\.x at position i: the group, <<>> when the pattern does not
\* match there
VersionAt(text, i) ==
    LET major == DigitRun(text, i)
        j     == i + Len(major)
        minor == DigitRun(text, j + 1)
        k     == j + 1 + Len(minor)
    IN IF /\ major # <<>>
          /\ SubstringAt(text, j, <<".">>)
          /\ minor # <<>>
          /\ SubstringAt(text, k, <<".", "x">>)
       THEN major \o <<".">> \o minor
       ELSE <<>>

\* name.match(/refs\/heads\/release\/(\d+\.\d+)\.x/): group 1 of the leftmost
\* match, <<>> for null
ReleaseMatch(name) ==
    LET hits == {i \in 1..Len(name) :
                    /\ SubstringAt(name, i, ReleaseBranchPrefix)
                    /\ VersionAt(name, i + Len(ReleaseBranchPrefix)) # <<>>}
    IN IF hits = {} THEN <<>>
       ELSE VersionAt(name, (CHOOSE i \in hits : \A j \in hits : i <= j)
                            + Len(ReleaseBranchPrefix))

\* the comparator of the sort: bMajor - aMajor || bMinor - aMinor
CompareVersions(a, b) ==
    LET aParts == Split(a)
        bParts == Split(b)
        byMajor == Number(ElementAt(bParts, 1)) - Number(ElementAt(aParts, 1))
    IN IF byMajor # 0 THEN byMajor
       ELSE Number(ElementAt(bParts, 2)) - Number(ElementAt(aParts, 2))

\* Array.prototype.sort with that comparator: stable
RECURSIVE InsertVersion(_, _)
InsertVersion(sorted, v) ==
    IF sorted = <<>> THEN <<v>>
    ELSE IF CompareVersions(Head(sorted), v) <= 0
    THEN <<Head(sorted)>> \o InsertVersion(Tail(sorted), v)
    ELSE <<v>> \o sorted

RECURSIVE SortVersions(_)
SortVersions(list) ==
    IF list = <<>> THEN <<>>
    ELSE InsertVersion(SortVersions(SubSeq(list, 1, Len(list) - 1)), list[Len(list)])

\* getLatestReleaseVersion; outcome is what the retried listing ends with and
\* <<>> stands for null
getLatestReleaseVersion(repoRefs, outcome) ==
    IF outcome # "ok" THEN [raised |-> FALSE, value |-> <<>>]
    ELSE LET listed   == ListRefs(repoRefs, ReleaseFilter)
             branches == SelectSeq(listed,
                                   LAMBDA r : StartsWith(r.name, ReleaseBranchPrefix))
             matches  == [i \in 1..Len(branches) |-> ReleaseMatch(branches[i].name)]
             releaseBranches == SelectSeq(matches, LAMBDA v : v # <<>>)
         IN IF Len(releaseBranches) = 0
            THEN [raised |-> FALSE, value |-> <<>>]
            ELSE [raised |-> FALSE, value |-> SortVersions(releaseBranches)[1]]

\* -------------------------------------------------------------------- store
FailureResult_Unknown(repo, message) ==
    [repository |-> repo.name, success |-> FALSE, error |-> "Unknown error"]

FailureResult(repo, message) ==
    [repository |-> repo.name, success |-> FALSE, error |-> message]

SuccessResult_WithError(repo, newVersion, workItems) ==
    [repository |-> repo.name, success |-> TRUE, newVersion |-> newVersion,
     workItems |-> workItems, error |-> ""]

SuccessResult(repo, newVersion, workItems) ==
    [repository |-> repo.name, success |-> TRUE, newVersion |-> newVersion,
     workItems |-> workItems]

\* position of the last item of items with the given id
LastWithId(items, id) ==
    CHOOSE i \in 1..Len(items) :
        /\ items[i].id = id
        /\ \A j \in (i + 1)..Len(items) : items[j].id # id

\* position of the first item of items with the given id
FirstWithId(items, id) ==
    CHOOSE i \in 1..Len(items) :
        /\ items[i].id = id
        /\ \A j \in 1..(i - 1) : items[j].id # id

Dedup_Identity(items) == items

Dedup_KeepFirst(items) ==
    LET ids == SetAddAll(<<>>, [i \in 1..Len(items) |-> items[i].id])
    IN [k \in 1..Len(ids) |-> items[FirstWithId(items, ids[k])]]

\* Array.from(new Map(items.map((item) => [item.id, item])).values()): a key
\* keeps the place of its first insertion and the value of its last
Dedup(items) ==
    LET ids == SetAddAll(<<>>, [i \in 1..Len(items) |-> items[i].id])
    IN [k \in 1..Len(ids) |-> items[LastWithId(items, ids[k])]]

\* the work item the remote answers for workitems/{id}: 007 and 7 name the
\* same item; rev tells two snapshots of its fields apart
WorkItem(id, rev) == [id |-> Number(id), rev |-> rev]

\* ------------------------------------------------------------------- state
VARIABLES
    repositories,          \* selectedRepos: name, currentVersion, bumpType
    refs,                  \* the remote: per repository, its refs in listing order
    pc,                    \* where processReleases stands
    run,                   \* the locals of processReleases
    isProcessing,          \* store
    processingResults,     \* store
    consolidatedWorkItems, \* store
    calls,                 \* history: the remote operations invoked, per repository
    thrown,                \* history: per recorded result, the errors of its run
    fnIn,                  \* the arguments of a function applied on its own
    fnOut                  \* and its result

vars == <<repositories, refs, pc, run, isProcessing, processingResults,
          consolidatedWorkItems, calls, thrown, fnIn, fnOut>>

pipelineVars == <<repositories, refs, pc, run, isProcessing, processingResults,
                  consolidatedWorkItems, calls, thrown>>

RealVersion == <<"1", ".", "9">>

OldTagCommit == "c3"

\* what a repository can look like when the batch starts: its current version
\* as the selection step left it, its bump, and what the remote holds for it:
\* main, the tag of the current version, and already a tag of the new version
RepoConfigs ==
    {cfg \in [currentVersion : {Undefined, NoReleases, ErrorLoading, RealVersion},
              bumpType : {"major", "minor"},
              hasMain : BOOLEAN,
              hasOldTag : BOOLEAN,
              hasNewTag : BOOLEAN] :
        /\ cfg.hasOldTag => cfg.currentVersion = RealVersion
        /\ cfg.hasNewTag => cfg.hasMain}

Ref(name, objectId, target) == [name |-> name, objectId |-> objectId, target |-> target]

InitialRefs(cfg) ==
    (IF cfg.hasMain THEN <<Ref(MainRef, "m1", "m1")>> ELSE <<>>)
    \o (IF cfg.currentVersion = RealVersion
        THEN <<Ref(BranchName(RealVersion), "c3", "c3")>> ELSE <<>>)
    \o (IF cfg.hasOldTag
        THEN <<Ref(TagRefName(RealVersion), "tagobj-old", OldTagCommit)>> ELSE <<>>)
    \o (IF cfg.hasNewTag
        THEN <<Ref(TagRefName(calculateNewVersion(cfg.currentVersion, cfg.bumpType)),
                   "tagobj-new", "c2")>>
        ELSE <<>>)

NoRun ==
    [idx |-> 0, newVersion |-> <<>>, oldTagName |-> <<>>, mainCommitId |-> "",
     sourceCommitId |-> "", oldTagObjectId |-> "", newTagObjectId |-> "",
     oldCommitId |-> "", newCommitId |-> "", commits |-> <<>>, k |-> 0,
     workItemIds |-> <<>>, workItems |-> <<>>, allWorkItems |-> <<>>,
     caught |-> {}, failed |-> {}, created |-> {}]

NoFn == [fn |-> "none"]

NoOut == [done |-> FALSE]

Init ==
    /\ \E n \in 1..MaxRepos : \E cfg \in [1..n -> RepoConfigs] :
          /\ repositories = [i \in 1..n |->
                                [name |-> <<"repo", i>>,
                                 currentVersion |-> cfg[i].currentVersion,
                                 bumpType |-> cfg[i].bumpType]]
          /\ refs = [i \in 1..n |-> InitialRefs(cfg[i])]
    /\ pc = "idle"
    /\ run = NoRun
    /\ isProcessing = FALSE
    /\ processingResults = <<>>
    /\ consolidatedWorkItems = <<>>
    /\ calls = {}
    /\ thrown = <<>>
    /\ fnIn = NoFn
    /\ fnOut = NoOut

\* ----------------------------------------------------------- processReleases
Repo == repositories[run.idx]

\* oldTagName; <<>> stands for null
OldTagName(currentVersion) ==
    IF currentVersion # Undefined /\ currentVersion # <<>> /\ currentVersion # NoReleases
    THEN currentVersion
    ELSE <<>>

\* the locals at the top of the loop body for repository i
BeginRepo(i, allWorkItems) ==
    [NoRun EXCEPT
        !.idx = i,
        !.newVersion = calculateNewVersion(repositories[i].currentVersion,
                                           repositories[i].bumpType),
        !.oldTagName = OldTagName(repositories[i].currentVersion),
        !.allWorkItems = allWorkItems]

Called(op) == calls' = calls \cup {<<run.idx, op>>}

\* history of one repository's run: the stage and message of the error that
\* reached the catch of the loop body, and the errors processReleases caught
\* before that, in the catch around the range stage or around getWorkItem;
\* with them the ids the run extracted, those whose fetch failed, and the
\* number of requests issued by the operation whose error ended the run, and
\* the names of the refs the remote created on the requests of the run
Errors(stage, message, caught) ==
    [stage |-> stage, message |-> message, caught |-> caught,
     ids |-> run.workItemIds, failed |-> run.failed, requests |-> 0,
     created |-> run.created]

Advance_StayProcessing(allWorkItems) ==
    IF run.idx < Len(repositories)
    THEN /\ run' = BeginRepo(run.idx + 1, allWorkItems)
         /\ pc' = "getMainBranchCommit"
         /\ UNCHANGED <<isProcessing, consolidatedWorkItems>>
    ELSE /\ run' = [NoRun EXCEPT !.allWorkItems = allWorkItems]
         /\ pc' = "done"
         /\ consolidatedWorkItems' = Dedup(allWorkItems)
         /\ UNCHANGED isProcessing

Advance_ConsolidateEach(allWorkItems) ==
    IF run.idx < Len(repositories)
    THEN /\ run' = BeginRepo(run.idx + 1, allWorkItems)
         /\ pc' = "getMainBranchCommit"
         /\ consolidatedWorkItems' = Dedup(allWorkItems)
         /\ UNCHANGED isProcessing
    ELSE /\ run' = [NoRun EXCEPT !.allWorkItems = allWorkItems]
         /\ pc' = "done"
         /\ consolidatedWorkItems' = Dedup(allWorkItems)
         /\ isProcessing' = FALSE

\* the next iteration of the loop or, after the last repository, the
\* deduplication and the end of the batch
Advance(allWorkItems) ==
    IF run.idx < Len(repositories)
    THEN /\ run' = BeginRepo(run.idx + 1, allWorkItems)
         /\ pc' = "getMainBranchCommit"
         /\ UNCHANGED <<isProcessing, consolidatedWorkItems>>
    ELSE /\ run' = [NoRun EXCEPT !.allWorkItems = allWorkItems]
         /\ pc' = "done"
         /\ consolidatedWorkItems' = Dedup(allWorkItems)
         /\ isProcessing' = FALSE

\* addProcessingResult at the end of the loop body or in its catch; the
\* arguments are values, evaluated once at the call
Record(result, error, allWorkItems) ==
    \E r \in {result} : \E e \in {error} : \E items \in {allWorkItems} :
        /\ processingResults' = Append(processingResults, r)
        /\ thrown' = Append(thrown, e)
        /\ Advance(items)

Fatal_NoRecord(stage, message, requests) ==
    /\ UNCHANGED <<processingResults, thrown>>
    /\ Advance(run.allWorkItems)

\* the catch of the loop body
Fatal(stage, message, requests) ==
    Record(FailureResult(Repo, message),
           [Errors(stage, message, run.caught) EXCEPT !.requests = requests],
           run.allWorkItems)

\* the end of the loop body, also through the catch around the range and
\* work-item stage
Success(workItems, allWorkItems, caught) ==
    Record(SuccessResult(Repo, run.newVersion, workItems), Errors("", "", caught),
           allWorkItems)

\* the button is enabled whenever no batch is running: a batch starts from the
\* initial state and again after a batch has ended, on the remote as it is then
Start ==
    /\ pc \in {"idle", "done"}
    /\ Len(repositories) > 0
    /\ ~isProcessing
    /\ isProcessing' = TRUE
    /\ processingResults' = <<>>
    /\ consolidatedWorkItems' = <<>>
    /\ run' = BeginRepo(1, <<>>)
    /\ pc' = "getMainBranchCommit"
    /\ calls' = {}
    /\ thrown' = <<>>
    /\ UNCHANGED <<repositories, refs, fnIn, fnOut>>

\* one invocation of the function retried by getMainBranchCommit
MainBranchAttempt(net, listing) ==
    IF net # "ok" THEN net
    ELSE IF Len(listing) = 0 THEN "Main branch not found"
    ELSE "ok"

\* getMainBranchCommit over what the network does to its attempts: the object
\* id of the first ref of the listing, or the error of the last attempt
getMainBranchCommit(repoRefs, attempts) ==
    LET listing == ListRefs(repoRefs, MainFilter)
        call == Retried([i \in 1..maxAttempts |->
                            MainBranchAttempt(attempts[i], listing)])
    IN IF call.outcome = "ok"
       THEN [raised |-> FALSE, value |-> listing[1].objectId,
             requests |-> call.requests]
       ELSE [raised |-> TRUE, value |-> call.outcome, requests |-> call.requests]

\* Step 1
GetMainBranchCommit ==
    /\ pc = "getMainBranchCommit"
    /\ Called("getMainBranchCommit")
    /\ \E result \in {getMainBranchCommit(refs[run.idx], attempts) :
                          attempts \in Attempts} :
          IF ~result.raised
          THEN /\ run' = [run EXCEPT !.mainCommitId = result.value]
               /\ pc' = "createBranchLookup"
               /\ UNCHANGED <<isProcessing, processingResults,
                              consolidatedWorkItems, thrown>>
          ELSE Fatal("getMainBranchCommit", result.value, result.requests)
    /\ UNCHANGED <<repositories, refs, fnIn, fnOut>>

\* Step 2, createBranch: the lookup of the source branch, one request outside
\* retryAsync
CreateBranchLookup ==
    /\ pc = "createBranchLookup"
    /\ Called("createBranch")
    /\ \E net \in {"ok"} \cup TransientErrors :
          LET listing == ListRefs(refs[run.idx], MainFilter)
          IN IF net # "ok"
             THEN Fatal("createBranch", net, 1)
             ELSE IF Len(listing) = 0
             THEN Fatal("createBranch", "Source branch refs/heads/main not found", 1)
             ELSE /\ run' = [run EXCEPT !.sourceCommitId = listing[1].objectId]
                  /\ pc' = "createBranchPost"
                  /\ UNCHANGED <<isProcessing, processingResults,
                                 consolidatedWorkItems, thrown>>
    /\ UNCHANGED <<repositories, refs, fnIn, fnOut>>

CreateAttempt_Overwrite(net, repoRefs, name) == net

\* one invocation of a request that creates a ref: the remote rejects it when
\* the name is taken (the request names the all-zero old object id)
CreateAttempt(net, repoRefs, name) ==
    IF net # "ok" THEN net
    ELSE IF HasRef(repoRefs, name) THEN "API Error: 409"
    ELSE "ok"

\* the same step going on to the tag when the creation of the branch failed
CreateBranchPost_Continue ==
    /\ pc = "createBranchPost"
    /\ LET name == BranchName(run.newVersion)
       IN \E call \in {Retried([i \in 1..maxAttempts |->
                                   CreateAttempt(attempts[i], refs[run.idx], name)]) :
                          attempts \in Attempts} :
             IF call.outcome = "ok"
             THEN /\ refs' = [refs EXCEPT ![run.idx] =
                                 Append(@, Ref(name, run.sourceCommitId,
                                               run.sourceCommitId))]
                  /\ run' = [run EXCEPT !.created = @ \cup {name}]
                  /\ pc' = "createTag"
                  /\ UNCHANGED <<isProcessing, processingResults,
                                 consolidatedWorkItems, thrown>>
             ELSE /\ pc' = "createTag"
                  /\ UNCHANGED <<refs, run, isProcessing, processingResults,
                                 consolidatedWorkItems, thrown>>
    /\ UNCHANGED <<repositories, calls, fnIn, fnOut>>

\* Step 2, createBranch: the creation request, retried
CreateBranchPost ==
    /\ pc = "createBranchPost"
    /\ LET name == BranchName(run.newVersion)
       IN \E call \in {Retried([i \in 1..maxAttempts |->
                                   CreateAttempt(attempts[i], refs[run.idx], name)]) :
                          attempts \in Attempts} :
             IF call.outcome = "ok"
             THEN /\ refs' = [refs EXCEPT ![run.idx] =
                                 Append(@, Ref(name, run.sourceCommitId,
                                               run.sourceCommitId))]
                  /\ run' = [run EXCEPT !.created = @ \cup {name}]
                  /\ pc' = "createTag"
                  /\ UNCHANGED <<isProcessing, processingResults,
                                 consolidatedWorkItems, thrown>>
             ELSE /\ Fatal("createBranch", call.outcome, call.requests)
                  /\ UNCHANGED refs
    /\ UNCHANGED <<repositories, calls, fnIn, fnOut>>

\* the same step deleting the branch of step 2 when the tag is refused
CreateTag_Rollback ==
    /\ pc = "createTag"
    /\ Called("createTag")
    /\ LET name == TagRefName(run.newVersion)
       IN \E call \in {Retried([i \in 1..maxAttempts |->
                                   CreateAttempt(attempts[i], refs[run.idx], name)]) :
                          attempts \in Attempts} :
             IF call.outcome = "ok"
             THEN /\ refs' = [refs EXCEPT ![run.idx] =
                                 Append(@, Ref(name, "tagobj-new", run.mainCommitId))]
                  /\ IF run.oldTagName # <<>>
                     THEN /\ run' = [run EXCEPT !.created = @ \cup {name}]
                          /\ pc' = "getRepositoryTags"
                          /\ UNCHANGED <<isProcessing, processingResults,
                                         consolidatedWorkItems, thrown>>
                     ELSE Record(SuccessResult(Repo, run.newVersion, <<>>),
                                 [Errors("", "", run.caught) EXCEPT
                                     !.created = @ \cup {name}],
                                 run.allWorkItems)
             ELSE /\ Fatal("createTag", call.outcome, call.requests)
                  /\ refs' = [refs EXCEPT ![run.idx] = SubSeq(@, 1, Len(@) - 1)]
    /\ UNCHANGED <<repositories, fnIn, fnOut>>

\* Step 3: the annotated tag on the main commit of step 1; without an old tag
\* name the result is recorded at once
CreateTag ==
    /\ pc = "createTag"
    /\ Called("createTag")
    /\ LET name == TagRefName(run.newVersion)
       IN \E call \in {Retried([i \in 1..maxAttempts |->
                                   CreateAttempt(attempts[i], refs[run.idx], name)]) :
                          attempts \in Attempts} :
             IF call.outcome = "ok"
             THEN /\ refs' = [refs EXCEPT ![run.idx] =
                                 Append(@, Ref(name, "tagobj-new", run.mainCommitId))]
                  /\ IF run.oldTagName # <<>>
                     THEN /\ run' = [run EXCEPT !.created = @ \cup {name}]
                          /\ pc' = "getRepositoryTags"
                          /\ UNCHANGED <<isProcessing, processingResults,
                                         consolidatedWorkItems, thrown>>
                     ELSE Record(SuccessResult(Repo, run.newVersion, <<>>),
                                 [Errors("", "", run.caught) EXCEPT
                                     !.created = @ \cup {name}],
                                 run.allWorkItems)
             ELSE /\ Fatal("createTag", call.outcome, call.requests)
                  /\ UNCHANGED refs
    /\ UNCHANGED <<repositories, fnIn, fnOut>>

\* Step 4, getCommitsBetweenTags: the tag listing and the lookup of both tags
GetRepositoryTags ==
    /\ pc = "getRepositoryTags"
    /\ Called("getRepositoryTags")
    /\ \E outcome \in RetryOutcomes :
          LET tags == ListRefs(refs[run.idx], TagsFilter)
              oldName == TagRefName(run.oldTagName)
              newName == TagRefName(run.newVersion)
          IN IF outcome = "ok" /\ HasRef(tags, oldName)
                /\ HasRef(tags, newName)
             THEN /\ run' = [run EXCEPT
                                !.oldTagObjectId = FindRef(tags, oldName).objectId,
                                !.newTagObjectId = FindRef(tags, newName).objectId]
                  /\ pc' = "resolveOldTag"
                  /\ UNCHANGED <<isProcessing, processingResults,
                                 consolidatedWorkItems, thrown>>
             ELSE Success(<<>>, run.allWorkItems,
                          run.caught \cup {IF outcome = "ok" THEN "Tags not found"
                                           ELSE "getRepositoryTags"})
    /\ UNCHANGED <<repositories, refs, fnIn, fnOut>>

\* the tag object the remote holds for an object id: its target commit
TagTarget(repoRefs, objectId) ==
    repoRefs[CHOOSE i \in 1..Len(repoRefs) : repoRefs[i].objectId = objectId].target

\* what getTagObject ends with: an error when every attempt failed, else the
\* body of the response, which may lack taggedObject or its objectId
TagResponses(repoRefs, objectId, outcome) ==
    IF outcome # "ok" THEN {TagError}
    ELSE {TagOk(TagTarget(repoRefs, objectId)), TagNoTaggedObject, TagNoObjectId}

ResolveOldTag ==
    /\ pc = "resolveOldTag"
    /\ Called("getTagObject")
    /\ \E outcome \in RetryOutcomes :
       \E response \in TagResponses(refs[run.idx], run.oldTagObjectId, outcome) :
          LET resolved == resolveTagCommitId(run.oldTagObjectId, response)
          IN IF resolved.raised
             THEN Success(<<>>, run.allWorkItems, run.caught \cup {"resolveTagCommitId"})
             ELSE /\ run' = [run EXCEPT !.oldCommitId = resolved.value]
                  /\ pc' = "resolveNewTag"
                  /\ UNCHANGED <<isProcessing, processingResults,
                                 consolidatedWorkItems, thrown>>
    /\ UNCHANGED <<repositories, refs, fnIn, fnOut>>

ResolveNewTag ==
    /\ pc = "resolveNewTag"
    /\ Called("getTagObject")
    /\ \E outcome \in RetryOutcomes :
       \E response \in TagResponses(refs[run.idx], run.newTagObjectId, outcome) :
          LET resolved == resolveTagCommitId(run.newTagObjectId, response)
          IN IF resolved.raised
             THEN Success(<<>>, run.allWorkItems, run.caught \cup {"resolveTagCommitId"})
             ELSE /\ run' = [run EXCEPT !.newCommitId = resolved.value]
                  /\ pc' = "getCommits"
                  /\ UNCHANGED <<isProcessing, processingResults,
                                 consolidatedWorkItems, thrown>>
    /\ UNCHANGED <<repositories, refs, fnIn, fnOut>>

\* the listings the remote can answer for the history of the new commit:
\* commits newest first, none twice
RECURSIVE ListsOver(_, _)
ListsOver(ids, n) ==
    IF n = 0 THEN {<<>>}
    ELSE LET shorter == ListsOver(ids, n - 1)
         IN shorter \cup {Append(l, c) : l \in shorter, c \in ids}

NoRepeat(l) == \A i, j \in 1..Len(l) : i # j => l[i] # l[j]

CommitLists(ids, n) == {l \in ListsOver(ids, n) : NoRepeat(l)}

PipelineCommits == {"c2", "c3"}

\* after the range: the extraction loop when there are commits, else the record
AfterRange(commits) ==
    IF commits # <<>>
    THEN /\ run' = [run EXCEPT !.commits = commits, !.k = 1]
         /\ pc' = "getCommitWorkItems"
         /\ UNCHANGED <<isProcessing, processingResults, consolidatedWorkItems, thrown>>
    ELSE Success(<<>>, run.allWorkItems, run.caught)

GetCommits_Rethrow ==
    /\ pc = "getCommits"
    /\ Called("getCommits")
    /\ \E outcome \in RetryOutcomes :
       \E list \in CommitLists(PipelineCommits, MaxCommits) :
          IF outcome = "ok"
          THEN AfterRange(FilterCommits(list, run.oldCommitId))
          ELSE Record(FailureResult(Repo, outcome),
                      Errors("getCommits", outcome, run.caught \cup {"getCommits"}),
                      run.allWorkItems)
    /\ UNCHANGED <<repositories, refs, fnIn, fnOut>>

\* Step 4, getCommitsBetweenTags: the commit query and its filter, retried
GetCommits ==
    /\ pc = "getCommits"
    /\ Called("getCommits")
    /\ \E outcome \in RetryOutcomes :
       \E list \in CommitLists(PipelineCommits, MaxCommits) :
          IF outcome = "ok"
          THEN AfterRange(FilterCommits(list, run.oldCommitId))
          ELSE Success(<<>>, run.allWorkItems, run.caught \cup {"getCommits"})
    /\ UNCHANGED <<repositories, refs, fnIn, fnOut>>

\* the loop over the commits: passes 1 to 3 and the per-commit request; after
\* the last commit, the loop over the ids or, with no id, the record
ExtractCommit ==
    /\ pc = "getCommitWorkItems"
    /\ Called("getCommitWorkItems")
    /\ \E outcome \in RetryOutcomes :
          \E ids \in {ExtractFromCommit(run.workItemIds, run.commits[run.k],
                                        getCommitWorkItems(run.commits[run.k],
                                                           outcome))} :
             IF run.k < Len(run.commits)
             THEN /\ run' = [run EXCEPT !.workItemIds = ids, !.k = @ + 1]
                  /\ UNCHANGED <<pc, isProcessing, processingResults,
                                 consolidatedWorkItems, thrown>>
             ELSE IF ids # <<>>
             THEN /\ run' = [run EXCEPT !.workItemIds = ids, !.k = 1]
                  /\ pc' = "getWorkItem"
                  /\ UNCHANGED <<isProcessing, processingResults,
                                 consolidatedWorkItems, thrown>>
             ELSE Success(<<>>, run.allWorkItems, run.caught)
    /\ UNCHANGED <<repositories, refs, fnIn, fnOut>>

MaxRev == 2

\* the same loop leaving at the first failed fetch
GetWorkItem_Abort ==
    /\ pc = "getWorkItem"
    /\ Called("getWorkItem")
    /\ \E outcome \in RetryOutcomes : \E rev \in 1..MaxRev :
          LET id == run.workItemIds[run.k]
              fetched == outcome = "ok"
              workItems == IF fetched THEN Append(run.workItems, WorkItem(id, rev))
                           ELSE run.workItems
              allWorkItems == IF fetched
                              THEN Append(run.allWorkItems, WorkItem(id, rev))
                              ELSE run.allWorkItems
              caught == IF fetched THEN run.caught
                        ELSE run.caught \cup {"getWorkItem"}
              failed == IF fetched THEN run.failed ELSE run.failed \cup {id}
          IN IF run.k < Len(run.workItemIds) /\ fetched
             THEN /\ run' = [run EXCEPT !.workItems = workItems,
                                        !.allWorkItems = allWorkItems, !.k = @ + 1,
                                        !.caught = caught, !.failed = failed]
                  /\ UNCHANGED <<pc, isProcessing, processingResults,
                                 consolidatedWorkItems, thrown>>
             ELSE Record(SuccessResult(Repo, run.newVersion, workItems),
                         [Errors("", "", caught) EXCEPT !.failed = failed],
                         allWorkItems)
    /\ UNCHANGED <<repositories, refs, fnIn, fnOut>>

\* the loop over the ids: a fetched item joins workItems and allWorkItems, a
\* failed fetch is skipped; after the last id the result is recorded
GetWorkItem ==
    /\ pc = "getWorkItem"
    /\ Called("getWorkItem")
    /\ \E outcome \in RetryOutcomes : \E rev \in 1..MaxRev :
          LET id == run.workItemIds[run.k]
              fetched == outcome = "ok"
              workItems == IF fetched THEN Append(run.workItems, WorkItem(id, rev))
                           ELSE run.workItems
              allWorkItems == IF fetched
                              THEN Append(run.allWorkItems, WorkItem(id, rev))
                              ELSE run.allWorkItems
              caught == IF fetched THEN run.caught
                        ELSE run.caught \cup {"getWorkItem"}
              failed == IF fetched THEN run.failed ELSE run.failed \cup {id}
          IN IF run.k < Len(run.workItemIds)
             THEN /\ run' = [run EXCEPT !.workItems = workItems,
                                        !.allWorkItems = allWorkItems, !.k = @ + 1,
                                        !.caught = caught, !.failed = failed]
                  /\ UNCHANGED <<pc, isProcessing, processingResults,
                                 consolidatedWorkItems, thrown>>
             ELSE Record(SuccessResult(Repo, run.newVersion, workItems),
                         [Errors("", "", caught) EXCEPT !.failed = failed],
                         allWorkItems)
    /\ UNCHANGED <<repositories, refs, fnIn, fnOut>>

Next ==
    \/ Start
    \/ GetMainBranchCommit
    \/ CreateBranchLookup
    \/ CreateBranchPost
    \/ CreateTag
    \/ GetRepositoryTags
    \/ ResolveOldTag
    \/ ResolveNewTag
    \/ GetCommits
    \/ ExtractCommit
    \/ GetWorkItem

Spec == Init /\ [][Next]_vars

\* the steps of a batch that is running: the continuation of processReleases
\* after the request it awaits has been answered or has failed
Step ==
    \/ GetMainBranchCommit
    \/ CreateBranchLookup
    \/ CreateBranchPost
    \/ CreateTag
    \/ GetRepositoryTags
    \/ ResolveOldTag
    \/ ResolveNewTag
    \/ GetCommits
    \/ ExtractCommit
    \/ GetWorkItem

\* the batches of minor bumps of one repository, or of two the last of which
\* has no release yet; each repository has a main branch, and a released one
\* has the tag of its release
LiveInit ==
    /\ Init
    /\ \A i \in DOMAIN repositories :
          /\ repositories[i].bumpType = "minor"
          /\ repositories[i].currentVersion \in {NoReleases, RealVersion}
          /\ HasRef(refs[i], MainRef)
          /\ ~HasRef(refs[i], TagRefName(calculateNewVersion(repositories[i].currentVersion,
                                                             "minor")))
          /\ HasRef(refs[i], TagRefName(RealVersion))
                <=> repositories[i].currentVersion = RealVersion
    /\ \/ Len(repositories) = 1
       \/ repositories[Len(repositories)].currentVersion = NoReleases

\* a batch whose awaited request is answered or fails goes on; nothing makes
\* the user start a batch
LiveSpec == LiveInit /\ [][Next]_vars /\ WF_vars(Step)

\* ------------------------------------------ the pipeline on a remote in use
\* the commit a push to main leaves at its head
PushedCommit == "m2"

\* somebody else pushes to main: the remote moves refs/heads/main to a new
\* commit, at any moment of a batch or outside one
MainAdvances ==
    /\ \E i \in DOMAIN refs : \E k \in 1..Len(refs[i]) :
          /\ refs[i][k].name = MainRef
          /\ refs[i][k].objectId # PushedCommit
          /\ refs' = [refs EXCEPT ![i][k] = Ref(MainRef, PushedCommit, PushedCommit)]
    /\ UNCHANGED <<repositories, pc, run, isProcessing, processingResults,
                   consolidatedWorkItems, calls, thrown, fnIn, fnOut>>

\* a batch of one repository
RaceInit ==
    /\ Init
    /\ Len(repositories) = 1

RaceNext ==
    \/ Next
    \/ MainAdvances

RaceSpec == RaceInit /\ [][RaceNext]_vars

\* ------------------------------------------- the functions on their own
\* `${M}.${m}`, the current version a release branch of version (M, m) gives
VersionString(M, m) == NumberToString(M) \o <<".">> \o NumberToString(m)

VersionInputs ==
    {[fn |-> "calculateNewVersion", currentVersion |-> cv, bumpType |-> b,
      pair |-> <<>>] :
        cv \in {Undefined, <<>>, NoReleases, ErrorLoading}, b \in {"major", "minor"}}
    \cup
    {[fn |-> "calculateNewVersion", currentVersion |-> VersionString(M, m),
      bumpType |-> b, pair |-> <<M, m>>] :
        M \in 0..MaxVer, m \in 0..MaxVer, b \in {"major", "minor"}}

RangeInputs ==
    [fn : {"getCommitsBetweenTags"},
     list : ListsOver(CommitIds, MaxListLen),
     oldCommitId : CommitIds \cup {"tagobj-old", UndefinedId}]

TagInputs ==
    [fn : {"resolveTagCommitId"},
     tagRefObjectId : {"tagobj-old", "c3"},
     response : {TagOk(c) : c \in CommitIds}
                \cup {TagError, TagNoTaggedObject, TagNoObjectId}]

ExtractInputs ==
    [fn : {"extract"},
     commits : CommitLists(CommitIds, MaxCommits),
     outcome : RetryOutcomes]

\* the refs a repository can hold around main, in any listing order
MainBranchRefs ==
    {Ref(MainRef, "m1", "m1"), Ref(MainLegacyRef, "l1", "l1"),
     Ref(BranchName(RealVersion), "c3", "c3")}

MainBranchInputs ==
    [fn : {"getMainBranchCommit"},
     repoRefs : CommitLists(MainBranchRefs, MaxListLen),
     attempts : Attempts]

\* branch names around the release pattern: three releases, a name without a
\* minor number, a release name with more behind the .x, a name that only
\* begins like release, and main
ReleaseNames ==
    {BranchName(<<"1", ".", "9">>), BranchName(<<"1", ".", "1", "0">>),
     BranchName(<<"2", ".", "0">>),
     ReleaseBranchPrefix \o <<"1", ".", "x">>,
     BranchName(<<"2", ".", "1">>) \o <<"-", "o", "l", "d">>,
     <<"r", "e", "f", "s", "/", "h", "e", "a", "d", "s", "/", "r", "e", "l", "e",
       "a", "s", "e", "s", "/", "9", ".", "9", ".", "x">>,
     MainRef}

LatestVersionInputs ==
    [fn : {"getLatestReleaseVersion"},
     repoRefs : CommitLists({Ref(n, "b1", "b1") : n \in ReleaseNames}, MaxListLen),
     outcome : RetryOutcomes]

\* the selection step followed by the bump: the refs of the repository, what
\* the listing ends with, and the bump the user chooses
BumpInputs ==
    [fn : {"loadAndBump"},
     repoRefs : CommitLists({Ref(n, "b1", "b1") : n \in ReleaseNames}, MaxListLen),
     outcome : RetryOutcomes,
     bumpType : {"major", "minor"}]

\* currentVersion: version || 'No releases'
LoadedVersion(repoRefs, outcome) ==
    LET version == getLatestReleaseVersion(repoRefs, outcome).value
    IN IF version # <<>> THEN version ELSE NoReleases

\* retryAsync(fn, {maxAttempts}): the limit (3 when the option is left out) and
\* what each invocation of fn would end with
RetryInputs ==
    UNION {[fn : {"retryAsync"},
            maxAttempts : {n},
            delayMs : {delayMs, 500},
            backoffMultiplier : {backoffMultiplier, 3},
            attempts : [1..n -> {"ok"} \cup TransientErrors]] : n \in 1..maxAttempts}

\* the value the i-th invocation of fn resolves to
ValueOf(i) == <<"value 1", "value 2", "value 3", "value 4">>[i]

\* the delays the loop has waited for so far, in milliseconds
Delays == IF "delays" \in DOMAIN fnOut THEN fnOut.delays ELSE <<>>

\* how many times fn has been invoked
Invoked == IF "invoked" \in DOMAIN fnOut THEN fnOut.invoked ELSE 0

LookupInputs ==
    [fn : {"getCommitWorkItems"}, commitId : CommitIds, outcome : RetryOutcomes]
    \cup
    [fn : {"getPullRequestWorkItems"},
     pullRequestId : {<<"4", "2">>, <<"7">>},
     outcome : RetryOutcomes]

\* the commits of a range and what the per-commit request of each ends with
ExtractEachInputs ==
    [fn : {"extractEach"},
     commits : CommitLists(CommitIds, MaxCommits),
     outcomes : [1..MaxCommits -> RetryOutcomes]]

\* the loop over the commits, each per-commit request ending in its own way
RECURSIVE ExtractEach(_, _, _)
ExtractEach(workItemIds, commits, outcomes) ==
    IF commits = <<>> THEN workItemIds
    ELSE ExtractEach(ExtractFromCommit(workItemIds, Head(commits),
                                       getCommitWorkItems(Head(commits),
                                                          Head(outcomes))),
                     Tail(commits), Tail(outcomes))

\* the loop over the commits as a whole, every per-commit request ending alike
RECURSIVE ExtractAll(_, _, _)
ExtractAll(workItemIds, commits, outcome) ==
    IF commits = <<>> THEN workItemIds
    ELSE ExtractAll(ExtractFromCommit(workItemIds, Head(commits),
                                      getCommitWorkItems(Head(commits), outcome)),
                    Tail(commits), outcome)

\* ------------------------------------------------------------ stripHtmlTags
\* position of the first ">" of text at or after i, 0 when there is none
RECURSIVE FirstClose(_, _)
FirstClose(text, i) ==
    IF i > Len(text) THEN 0
    ELSE IF text[i] = ">" THEN i
    ELSE FirstClose(text, i + 1)

\* text.replace(/<[^>]*>/g, '') from position i on: a "<" goes with everything
\* up to the first ">" after it, and stays when no ">" follows
RECURSIVE StripTagsFrom(_, _)
StripTagsFrom(text, i) ==
    IF i > Len(text) THEN <<>>
    ELSE IF text[i] = "<" /\ FirstClose(text, i + 1) # 0
    THEN StripTagsFrom(text, FirstClose(text, i + 1) + 1)
    ELSE <<text[i]>> \o StripTagsFrom(text, i + 1)

\* text.replace(/pattern/g, replacement) from position i on, for a pattern
\* that is a fixed string
RECURSIVE ReplaceAllFrom(_, _, _, _)
ReplaceAllFrom(text, i, pattern, replacement) ==
    IF i > Len(text) THEN <<>>
    ELSE IF SubstringAt(text, i, pattern)
    THEN replacement \o ReplaceAllFrom(text, i + Len(pattern), pattern, replacement)
    ELSE <<text[i]>> \o ReplaceAllFrom(text, i + 1, pattern, replacement)

ReplaceAll(text, pattern, replacement) == ReplaceAllFrom(text, 1, pattern, replacement)

\* the chain of entity replacements, &amp; last
DecodeEntities(text) ==
    LET nbsp == ReplaceAll(text, <<"&", "n", "b", "s", "p", ";">>, <<" ">>)
        lt   == ReplaceAll(nbsp, <<"&", "l", "t", ";">>, <<"<">>)
        gt   == ReplaceAll(lt, <<"&", "g", "t", ";">>, <<">">>)
        quot == ReplaceAll(gt, <<"&", "q", "u", "o", "t", ";">>, <<"\"">>)
        apos == ReplaceAll(quot, <<"&", "#", "3", "9", ";">>, <<"'">>)
    IN ReplaceAll(apos, <<"&", "a", "m", "p", ";">>, <<"&">>)

\* String.prototype.trim
RECURSIVE Trim(_)
Trim(text) ==
    IF text = <<>> THEN <<>>
    ELSE IF Head(text) = " " THEN Trim(Tail(text))
    ELSE IF text[Len(text)] = " " THEN Trim(SubSeq(text, 1, Len(text) - 1))
    ELSE text

MaxTokens == 4

\* the pieces the inputs of stripHtmlTags are made of
HtmlTokens ==
    {<<"<">>, <<">">>, <<"b">>, <<" ">>, <<"&", "l", "t", ";">>,
     <<"&", "g", "t", ";">>, <<"&", "a", "m", "p", ";">>, <<"l", "t", ";">>}

RECURSIVE Concat(_)
Concat(pieces) == IF pieces = <<>> THEN <<>> ELSE Head(pieces) \o Concat(Tail(pieces))

\* html: every text of up to MaxTokens pieces, and the nested tag of the
\* comment in the code
StripInputs ==
    [fn : {"stripHtmlTags"},
     html : {Concat(pieces) : pieces \in ListsOver(HtmlTokens, MaxTokens)}
            \cup {<<"<", "<", "s", "c", "r", "i", "p", "t", ">", "s", "c", "r", "i",
                     "p", "t", ">">>}]

\* the locals of stripHtmlTags and the number of turns its loop has made
StripLocals ==
    IF "result" \in DOMAIN fnOut THEN fnOut
    ELSE [done |-> FALSE, result |-> fnIn.html, previousResult |-> <<>>, passes |-> 0]

\* handleExport: the consolidated work items of the store, the version the
\* field is set to, and what the update request of each item ends with
ExportInputs ==
    [fn : {"handleExport"},
     consolidatedWorkItems : {<<>>} \cup
                             {<<WorkItem(<<"7">>, 1)>>,
                              <<WorkItem(<<"7">>, 1), WorkItem(<<"3", "0", "0">>, 1)>>},
     integrationBuild : {<<"2", ".", "0">>},
     outcomes : [1..2 -> RetryOutcomes]]

\* what handleExport has done so far, in order
Events == IF "events" \in DOMAIN fnOut THEN fnOut.events ELSE <<>>

FnInit ==
    /\ repositories = <<>>
    /\ refs = <<>>
    /\ pc = "idle"
    /\ run = NoRun
    /\ isProcessing = FALSE
    /\ processingResults = <<>>
    /\ consolidatedWorkItems = <<>>
    /\ calls = {}
    /\ thrown = <<>>
    /\ \/ fnIn \in VersionInputs
       \/ fnIn \in RangeInputs
       \/ fnIn \in TagInputs
       \/ fnIn \in ExtractInputs
       \/ fnIn \in MainBranchInputs
       \/ fnIn \in LatestVersionInputs
       \/ fnIn \in RetryInputs
       \/ fnIn \in LookupInputs
       \/ fnIn \in ExtractEachInputs
       \/ fnIn \in ExportInputs
       \/ fnIn \in BumpInputs
       \/ fnIn \in StripInputs
    /\ fnOut = NoOut

Return(value) ==
    /\ ~fnOut.done
    /\ fnOut' = [done |-> TRUE, value |-> value]
    /\ UNCHANGED <<pipelineVars, fnIn>>

ApplyCalculateNewVersion ==
    /\ fnIn.fn = "calculateNewVersion"
    /\ Return(calculateNewVersion(fnIn.currentVersion, fnIn.bumpType))

ApplyFilterCommits ==
    /\ fnIn.fn = "getCommitsBetweenTags"
    /\ Return(FilterCommits(fnIn.list, fnIn.oldCommitId))

ApplyResolveTagCommitId ==
    /\ fnIn.fn = "resolveTagCommitId"
    /\ Return(resolveTagCommitId(fnIn.tagRefObjectId, fnIn.response))

ApplyExtract ==
    /\ fnIn.fn = "extract"
    /\ Return(ExtractAll(<<>>, fnIn.commits, fnIn.outcome))

ApplyGetMainBranchCommit ==
    /\ fnIn.fn = "getMainBranchCommit"
    /\ Return(getMainBranchCommit(fnIn.repoRefs, fnIn.attempts))

ApplyGetLatestReleaseVersion ==
    /\ fnIn.fn = "getLatestReleaseVersion"
    /\ Return(getLatestReleaseVersion(fnIn.repoRefs, fnIn.outcome))

RetryAttempt_FirstError ==
    /\ fnIn.fn = "retryAsync"
    /\ ~fnOut.done
    /\ LET attempt == Invoked + 1
           result  == fnIn.attempts[attempt]
           lastError == IF Invoked = 0 THEN result ELSE fnOut.lastError
           delay   == fnIn.delayMs * Pow(fnIn.backoffMultiplier, attempt - 1)
       IN fnOut' =
             IF result = "ok"
             THEN [done |-> TRUE, raised |-> FALSE, value |-> ValueOf(attempt),
                   invoked |-> attempt, delays |-> Delays]
             ELSE IF attempt < fnIn.maxAttempts
             THEN [done |-> FALSE, invoked |-> attempt, lastError |-> lastError,
                   delays |-> Append(Delays, delay)]
             ELSE [done |-> TRUE, raised |-> TRUE, value |-> lastError,
                   invoked |-> attempt, delays |-> Delays]
    /\ UNCHANGED <<pipelineVars, fnIn>>

RetryAttempt_WaitAfterLast ==
    /\ fnIn.fn = "retryAsync"
    /\ ~fnOut.done
    /\ LET attempt == Invoked + 1
           result  == fnIn.attempts[attempt]
           delay   == fnIn.delayMs * Pow(fnIn.backoffMultiplier, attempt - 1)
       IN fnOut' =
             IF result = "ok"
             THEN [done |-> TRUE, raised |-> FALSE, value |-> ValueOf(attempt),
                   invoked |-> attempt, delays |-> Delays]
             ELSE IF attempt < fnIn.maxAttempts
             THEN [done |-> FALSE, invoked |-> attempt, lastError |-> result,
                   delays |-> Append(Delays, delay)]
             ELSE [done |-> TRUE, raised |-> TRUE, value |-> result,
                   invoked |-> attempt, delays |-> Append(Delays, delay)]
    /\ UNCHANGED <<pipelineVars, fnIn>>

\* one turn of the loop of retryAsync: an invocation of fn, then the return of
\* its value, or the delay before the next turn, or the throw of lastError
RetryAttempt ==
    /\ fnIn.fn = "retryAsync"
    /\ ~fnOut.done
    /\ LET attempt == Invoked + 1
           result  == fnIn.attempts[attempt]
           delay   == fnIn.delayMs * Pow(fnIn.backoffMultiplier, attempt - 1)
       IN fnOut' =
             IF result = "ok"
             THEN [done |-> TRUE, raised |-> FALSE, value |-> ValueOf(attempt),
                   invoked |-> attempt, delays |-> Delays]
             ELSE IF attempt < fnIn.maxAttempts
             THEN [done |-> FALSE, invoked |-> attempt, lastError |-> result,
                   delays |-> Append(Delays, delay)]
             ELSE [done |-> TRUE, raised |-> TRUE, value |-> result,
                   invoked |-> attempt, delays |-> Delays]
    /\ UNCHANGED <<pipelineVars, fnIn>>

ApplyGetCommitWorkItems ==
    /\ fnIn.fn = "getCommitWorkItems"
    /\ Return(LinkedWorkItems(CommitLinkedIds(fnIn.commitId), fnIn.outcome))

ApplyGetPullRequestWorkItems ==
    /\ fnIn.fn = "getPullRequestWorkItems"
    /\ Return(getPullRequestWorkItems(fnIn.pullRequestId, fnIn.outcome))

ApplyExtractEach ==
    /\ fnIn.fn = "extractEach"
    /\ Return(ExtractEach(<<>>, fnIn.commits, fnIn.outcomes))

\* handleExport with nothing consolidated: the early return
HandleExportReturn ==
    /\ fnIn.fn = "handleExport"
    /\ ~fnOut.done
    /\ fnIn.consolidatedWorkItems = <<>>
    /\ fnOut' = [done |-> TRUE, events |-> <<>>]
    /\ UNCHANGED <<pipelineVars, fnIn>>

\* one turn of the loop of handleExport: the update of the field of one item,
\* its error caught
UpdateWorkItem ==
    /\ fnIn.fn = "handleExport"
    /\ ~fnOut.done
    /\ Len(Events) < Len(fnIn.consolidatedWorkItems)
    /\ LET k == Len(Events) + 1
       IN fnOut' = [done |-> FALSE,
                    events |-> Append(Events,
                                      [op |-> "updateWorkItem",
                                       id |-> fnIn.consolidatedWorkItems[k].id,
                                       value |-> fnIn.integrationBuild,
                                       updated |-> fnIn.outcomes[k] = "ok"])]
    /\ UNCHANGED <<pipelineVars, fnIn>>

\* the last statement of handleExport, after the loop
ExportToCSV ==
    /\ fnIn.fn = "handleExport"
    /\ ~fnOut.done
    /\ fnIn.consolidatedWorkItems # <<>>
    /\ Len(Events) = Len(fnIn.consolidatedWorkItems)
    /\ fnOut' = [done |-> TRUE,
                 events |-> Append(Events,
                                   [op |-> "exportToCSV",
                                    ids |-> [k \in 1..Len(fnIn.consolidatedWorkItems) |->
                                                fnIn.consolidatedWorkItems[k].id],
                                    mainVersion |-> fnIn.integrationBuild])]
    /\ UNCHANGED <<pipelineVars, fnIn>>

\* the version loaded for the repository, then the new version and the name
\* of the branch processReleases computes from it
ApplyLoadAndBump ==
    /\ fnIn.fn = "loadAndBump"
    /\ LET currentVersion == LoadedVersion(fnIn.repoRefs, fnIn.outcome)
           newVersion == calculateNewVersion(currentVersion, fnIn.bumpType)
       IN Return([currentVersion |-> currentVersion, newVersion |-> newVersion,
                  branchName |-> BranchName(newVersion)])

\* stripHtmlTags of the empty string: the early return
StripReturnEmpty ==
    /\ fnIn.fn = "stripHtmlTags"
    /\ ~fnOut.done
    /\ fnIn.html = <<>>
    /\ fnOut' = [done |-> TRUE, value |-> <<>>, result |-> <<>>,
                 previousResult |-> <<>>, passes |-> 0]
    /\ UNCHANGED <<pipelineVars, fnIn>>

\* one turn of the loop of stripHtmlTags
StripPass ==
    /\ fnIn.fn = "stripHtmlTags"
    /\ ~fnOut.done
    /\ fnIn.html # <<>>
    /\ StripLocals.result # StripLocals.previousResult
    /\ fnOut' = [done |-> FALSE,
                 result |-> StripTagsFrom(StripLocals.result, 1),
                 previousResult |-> StripLocals.result,
                 passes |-> StripLocals.passes + 1]
    /\ UNCHANGED <<pipelineVars, fnIn>>

\* after the loop: the entities decoded, the result trimmed and returned
StripDecodeAndTrim ==
    /\ fnIn.fn = "stripHtmlTags"
    /\ ~fnOut.done
    /\ fnIn.html # <<>>
    /\ StripLocals.result = StripLocals.previousResult
    /\ fnOut' = [fnOut EXCEPT !.done = TRUE] @@
                 [value |-> Trim(DecodeEntities(StripLocals.result))]
    /\ UNCHANGED <<pipelineVars, fnIn>>

FnNext ==
    \/ ApplyCalculateNewVersion
    \/ ApplyFilterCommits
    \/ ApplyResolveTagCommitId
    \/ ApplyExtract
    \/ ApplyGetMainBranchCommit
    \/ ApplyGetLatestReleaseVersion
    \/ RetryAttempt
    \/ ApplyGetCommitWorkItems
    \/ ApplyGetPullRequestWorkItems
    \/ ApplyExtractEach
    \/ HandleExportReturn
    \/ UpdateWorkItem
    \/ ExportToCSV
    \/ ApplyLoadAndBump
    \/ StripReturnEmpty
    \/ StripPass
    \/ StripDecodeAndTrim

FnSpec == FnInit /\ [][FnNext]_vars

\* ==================================================================== claims

\* the remote operations invoked for repository i
CallsOf(i) == {c[2] : c \in {x \in calls : x[1] = i}}

Ids(items) == {items[k].id : k \in 1..Len(items)}

NoIdTwice(items) == \A j, k \in 1..Len(items) : items[j].id = items[k].id => j = k

Recorded == 1..Len(processingResults)

\* how many results the loop has recorded when it stands at pc
ResultsDue ==
    IF pc = "idle" THEN 0
    ELSE IF pc = "done" THEN Len(repositories)
    ELSE run.idx - 1

\* C1: processingResults holds one entry per repository already processed, in
\* input order, N entries when the batch has finished, whatever failed: a
\* failure carries the captured message, a success its new version and its
\* work-item list.
C1_OneResultPerRepository ==
    /\ Len(processingResults) = ResultsDue
    /\ \A i \in Recorded :
          /\ processingResults[i].repository = repositories[i].name
          /\ IF processingResults[i].success
             THEN /\ processingResults[i].newVersion =
                        calculateNewVersion(repositories[i].currentVersion,
                                            repositories[i].bumpType)
                  /\ DOMAIN processingResults[i] =
                        {"repository", "success", "newVersion", "workItems"}
             ELSE /\ processingResults[i].error = thrown[i].message
                  /\ thrown[i].message # ""

\* the batch finished with the first repository recorded as a success carrying
\* work items and the second as a failure of the tag creation
C1_Witness ==
    /\ pc = "done"
    /\ Len(processingResults) = 2
    /\ processingResults[1].success
    /\ processingResults[1].workItems # <<>>
    /\ ~processingResults[2].success
    /\ thrown[2].stage = "createTag"

RECURSIVE SuccessItems(_)
SuccessItems(results) ==
    IF results = <<>> THEN <<>>
    ELSE (IF Head(results).success THEN Head(results).workItems ELSE <<>>)
         \o SuccessItems(Tail(results))

\* C3: at the end of a batch the ids of consolidatedWorkItems are the union of
\* the ids of the work-item lists of the successes, none occurs twice, and a
\* failed repository contributes no work item.
C3_ConsolidatedIsUnionOfSuccesses ==
    pc = "done" =>
        /\ Ids(consolidatedWorkItems) =
              UNION {Ids(processingResults[i].workItems) :
                        i \in {j \in Recorded : processingResults[j].success}}
        /\ NoIdTwice(consolidatedWorkItems)
        /\ run.allWorkItems = SuccessItems(processingResults)

\* a batch ended with a failed repository and a successful one whose two
\* records of item 7 were consolidated into one
C3_Witness ==
    /\ pc = "done"
    /\ Len(processingResults) = 2
    /\ ~processingResults[1].success
    /\ processingResults[2].success
    /\ Len(processingResults[2].workItems) = 2
    /\ Len(consolidatedWorkItems) = 1

\* the operations a run may have invoked when it failed at the given stage
AllowedUpTo(stage) ==
    CASE stage = "getMainBranchCommit" -> {"getMainBranchCommit"}
      [] stage = "createBranch" -> {"getMainBranchCommit", "createBranch"}
      [] stage = "createTag" -> {"getMainBranchCommit", "createBranch", "createTag"}
      [] OTHER -> {}

NewBranchOf(i) ==
    BranchName(calculateNewVersion(repositories[i].currentVersion,
                                   repositories[i].bumpType))

\* C4: a repository whose main-commit resolution, branch creation or tag
\* creation fails has one failure result carrying that error's message, no
\* later stage was invoked for it, the branch it created before a failed tag
\* creation stays, and the loop goes on to the next repository.
C4_FatalStageFailure ==
    /\ Len(processingResults) = ResultsDue
    /\ \A i \in Recorded :
          /\ thrown[i].stage # "" <=> ~processingResults[i].success
          /\ ~processingResults[i].success =>
                /\ thrown[i].stage \in {"getMainBranchCommit", "createBranch", "createTag"}
                /\ processingResults[i].repository = repositories[i].name
                /\ processingResults[i].error = thrown[i].message
                /\ CallsOf(i) \subseteq AllowedUpTo(thrown[i].stage)
                /\ thrown[i].stage = "createTag" => HasRef(refs[i], NewBranchOf(i))

\* the tag creation of the first repository failed after its branch was made,
\* and the second repository was processed to a success
C4_Witness ==
    /\ pc = "done"
    /\ Len(processingResults) = 2
    /\ ~processingResults[1].success
    /\ thrown[1].stage = "createTag"
    /\ HasRef(refs[1], NewBranchOf(1))
    /\ processingResults[2].success

RangeOperations ==
    {"getRepositoryTags", "getTagObject", "getCommits", "getCommitWorkItems",
     "getWorkItem"}

C6_AnyCaughtFailureEmptiesTheList ==
    \A i \in Recorded :
        thrown[i].caught # {} =>
            /\ processingResults[i].success
            /\ processingResults[i].workItems = <<>>

\* C6 as amended: when the tag listing, the lookup of the two tags or the
\* commit query fails, the repository is a success with its new version and
\* an empty work-item list; a failed fetch of one work item leaves the
\* repository a success; and the loop goes on to the next repository.
C6_RangeFailureIsNotFatal ==
    /\ Len(processingResults) = ResultsDue
    /\ \A i \in Recorded :
          thrown[i].caught # {} =>
             /\ processingResults[i].success
             /\ processingResults[i].newVersion =
                   calculateNewVersion(repositories[i].currentVersion,
                                       repositories[i].bumpType)
             /\ thrown[i].caught \cap {"getRepositoryTags", "Tags not found",
                                       "getCommits"} # {} =>
                   processingResults[i].workItems = <<>>

\* the commit query of the first repository failed, it was recorded as a
\* success without work items, and the second repository was processed
C6_Witness ==
    /\ pc = "done"
    /\ Len(processingResults) = 2
    /\ "getCommits" \in thrown[1].caught
    /\ processingResults[1].success
    /\ processingResults[1].workItems = <<>>
    /\ HasRef(refs[1], NewBranchOf(1))

\* C7: calculateNewVersion equals the reference nextVersion: for a real current
\* version (M, m), major gives (M+1, 0) and minor gives (M, m+1); for a sentinel
\* current version (absent, empty, 'No releases', 'Error loading'), major gives
\* 1.0 and minor gives 0.1.
C7_CalculateNewVersionIsNextVersion ==
    (fnIn.fn = "calculateNewVersion" /\ fnOut.done) =>
        IF fnIn.pair = <<>>
        THEN fnOut.value = IF fnIn.bumpType = "major" THEN <<"1", ".", "0">>
                           ELSE <<"0", ".", "1">>
        ELSE LET M == fnIn.pair[1]
                 m == fnIn.pair[2]
             IN fnOut.value = IF fnIn.bumpType = "major"
                              THEN VersionString(M + 1, 0)
                              ELSE VersionString(M, m + 1)

\* a major bump of 9.9 was computed and carried into a second digit: 10.0
C7_Witness ==
    /\ fnIn.fn = "calculateNewVersion"
    /\ fnOut.done
    /\ fnIn.currentVersion = <<"9", ".", "9">>
    /\ fnIn.bumpType = "major"
    /\ fnOut.value = <<"1", "0", ".", "0">>

IsPrefix(r, l) == Len(r) <= Len(l) /\ r = SubSeq(l, 1, Len(r))

\* C8: the tag-to-tag range of a fetched list L and old commit c is the prefix
\* of L strictly before the first position of c when c occurs in L, and all of
\* L when it does not; the result never contains c when c is in L.
C8_RangeIsPrefixBeforeOldCommit ==
    (fnIn.fn = "getCommitsBetweenTags" /\ fnOut.done) =>
        LET L == fnIn.list
            c == fnIn.oldCommitId
            R == fnOut.value
        IN /\ IsPrefix(R, L)
           /\ c \in Range(L) => /\ c \notin Range(R)
                                /\ L[Len(R) + 1] = c
           /\ c \notin Range(L) => R = L

\* the old commit is the last of three fetched commits: the two newer remain
C8_Witness ==
    /\ fnIn.fn = "getCommitsBetweenTags"
    /\ fnOut.done
    /\ fnIn.list = <<"c1", "c2", "c3">>
    /\ fnIn.oldCommitId = "c3"
    /\ fnOut.value = <<"c1", "c2">>

\* C9: for the commit 'Merged PR 42: fixes AB#100 and #200' with explicit link
\* 300, pull request 42 being linked to 400, the extracted ids are exactly
\* 100, 200, 300 and 400: the pull request's linked ids, and not its number.
C9_PullRequestIdsExtracted ==
    (fnIn.fn = "extract" /\ fnOut.done /\ fnIn.commits = <<"c1">>
     /\ fnIn.outcome = "ok") =>
        Range(fnOut.value) =
            {<<"1", "0", "0">>, <<"2", "0", "0">>, <<"3", "0", "0">>}
            \cup Range(PullRequestLinkedIds(PrMatch(CommitComment("c1"))))

FetchedIds(ids, failed) ==
    LET kept == SelectSeq(ids, LAMBDA id : id \notin failed)
    IN [k \in 1..Len(kept) |-> Number(kept[k])]

\* C11: a recorded run that resolved a set of ids is a success whose work-item
\* list holds, in order, one item for every id whose fetch did not fail, and
\* none for an id whose fetch failed: a failed fetch omits that id only.
C11_FailedFetchOmitsOnlyThatId ==
    \A i \in Recorded :
        thrown[i].ids # <<>> =>
            /\ processingResults[i].success
            /\ thrown[i].failed \subseteq Range(thrown[i].ids)
            /\ [k \in 1..Len(processingResults[i].workItems) |->
                    processingResults[i].workItems[k].id]
                  = FetchedIds(thrown[i].ids, thrown[i].failed)

\* of the two ids of a run the fetch of the first failed, and the work-item
\* list of the success holds the item of the second
C11_Witness ==
    /\ Len(processingResults) >= 1
    /\ thrown[1].ids = << <<"7">>, <<"0", "0", "7">> >>
    /\ thrown[1].failed = { <<"7">> }
    /\ processingResults[1].success
    /\ Len(processingResults[1].workItems) = 1

\* C12: when no request fails, getMainBranchCommit returns the object id of
\* the ref named exactly refs/heads/main when the repository has it, and fails
\* with 'Main branch not found' when it has not, whatever other refs begin
\* with the same characters.
C12_ExactMainOrNotFound ==
    (/\ fnIn.fn = "getMainBranchCommit"
     /\ fnOut.done
     /\ \A i \in 1..maxAttempts : fnIn.attempts[i] = "ok") =>
        IF HasRef(fnIn.repoRefs, MainRef)
        THEN /\ ~fnOut.value.raised
             /\ fnOut.value.value = FindRef(fnIn.repoRefs, MainRef).objectId
        ELSE /\ fnOut.value.raised
             /\ fnOut.value.value = "Main branch not found"

\* the (major, minor) pairs of the refs named refs/heads/release/M.m.x exactly
NamedVersions(repoRefs) ==
    {p \in (0..MaxVer) \X (0..MaxVer) :
        HasRef(repoRefs, BranchName(VersionString(p[1], p[2])))}

\* C13: when the listing is answered, getLatestReleaseVersion returns the
\* version greatest by major, then minor, compared as numbers, among the refs
\* named refs/heads/release/M.m.x, null when there is none, and never raises;
\* a ref with any other name contributes nothing.
C13_LatestIsMaxOfWellFormedNames ==
    (fnIn.fn = "getLatestReleaseVersion" /\ fnOut.done) =>
        /\ ~fnOut.value.raised
        /\ fnIn.outcome = "ok" =>
              LET V == NamedVersions(fnIn.repoRefs)
              IN IF V = {} THEN fnOut.value.value = <<>>
                 ELSE \E p \in V :
                         /\ fnOut.value.value = VersionString(p[1], p[2])
                         /\ \A q \in V : \/ q[1] < p[1]
                                          \/ (q[1] = p[1] /\ q[2] <= p[2])

\* C14: retryAsync invokes fn at most maxAttempts times, every invocation
\* before the latest one failed (none follows a success), it returns the
\* value of the first invocation that succeeds, and when all maxAttempts
\* invocations fail it raises the error of the last one.
C14_RetryUntilFirstSuccess ==
    fnIn.fn = "retryAsync" =>
        /\ Invoked <= fnIn.maxAttempts
        /\ \A j \in 1..(Invoked - 1) : fnIn.attempts[j] # "ok"
        /\ ~fnOut.done => (Invoked >= 1 => fnIn.attempts[Invoked] # "ok")
        /\ fnOut.done =>
              IF \E j \in 1..fnIn.maxAttempts : fnIn.attempts[j] = "ok"
              THEN /\ ~fnOut.raised
                   /\ fnIn.attempts[Invoked] = "ok"
                   /\ fnOut.value = ValueOf(Invoked)
              ELSE /\ fnOut.raised
                   /\ Invoked = fnIn.maxAttempts
                   /\ fnOut.value = fnIn.attempts[fnIn.maxAttempts]

\* three invocations failed, the first two with another error than the third,
\* and the error of the third was raised
C14_Witness ==
    /\ fnIn.fn = "retryAsync"
    /\ fnIn.maxAttempts = maxAttempts
    /\ fnIn.attempts = <<"API Error: 503", "API Error: 503", "API Error: 500">>
    /\ fnOut.done
    /\ fnOut.raised
    /\ fnOut.invoked = 3
    /\ fnOut.value = "API Error: 500"

\* C15: every request of a release run is retried: a repository recorded as a
\* failure with the error of a failed HTTP request failed only after the
\* operation had issued maxAttempts requests, never after a single one.
C15_EveryRequestIsRetried ==
    \A i \in Recorded :
        (~processingResults[i].success /\ thrown[i].message \in TransientErrors) =>
            thrown[i].requests = maxAttempts

NewTagOf(i) ==
    TagRefName(calculateNewVersion(repositories[i].currentVersion,
                                   repositories[i].bumpType))

\* C16: every step, in every batch, leaves each ref of each repository where
\* it was, with its name and its object, and only adds refs whose names were
\* free: nothing is deleted or moved, also when the run fails.
C16_RefsAreOnlyAdded ==
    [][\A i \in DOMAIN refs :
          /\ IsPrefix(refs[i], refs'[i])
          /\ \A k \in (Len(refs[i]) + 1)..Len(refs'[i]) :
                ~HasRef(refs[i], refs'[i][k].name)]_vars

\* a second batch on the remote the first one left: the creation of the branch
\* was refused, and the branch and the tag of the first batch are still there
C16_Witness ==
    /\ pc = "done"
    /\ ~processingResults[1].success
    /\ thrown[1].stage = "createBranch"
    /\ thrown[1].message = "API Error: 409"
    /\ HasRef(refs[1], NewBranchOf(1))
    /\ HasRef(refs[1], NewTagOf(1))

\* the creation about to be requested names a ref the remote already holds
CreatingExistingRef ==
    \/ pc = "createBranchPost" /\ HasRef(refs[run.idx], BranchName(run.newVersion))
    \/ pc = "createTag" /\ HasRef(refs[run.idx], TagRefName(run.newVersion))

\* C17: when the release branch or the tag of the new version already exists,
\* the step that requests its creation leaves the refs as they are, records the
\* repository as a failure carrying the error's message, and the loop goes on
\* to the next repository (or ends the batch after the last one).
C17_ExistingRefIsAFailure ==
    [][CreatingExistingRef =>
          /\ refs' = refs
          /\ Len(processingResults') = Len(processingResults) + 1
          /\ SubSeq(processingResults', 1, Len(processingResults)) = processingResults
          /\ LET result == processingResults'[Len(processingResults')]
                 error  == thrown'[Len(thrown')]
             IN /\ ~result.success
                /\ result.repository = repositories[run.idx].name
                /\ result.error = error.message
                /\ result.error \in {"API Error: 409"} \cup TransientErrors
          /\ IF run.idx < Len(repositories)
             THEN pc' = "getMainBranchCommit" /\ run'.idx = run.idx + 1
             ELSE pc' = "done"]_vars

\* the remote already held the tag of the first repository's new version: its
\* creation was refused, the repository was recorded as a failure with the
\* refusal, and the second repository was processed to a success
C17_Witness ==
    /\ pc = "done"
    /\ Len(processingResults) = 2
    /\ ~processingResults[1].success
    /\ thrown[1].stage = "createTag"
    /\ processingResults[1].error = "API Error: 409"
    /\ processingResults[2].success

\* the two shapes of a result
ResultShape(result) ==
    IF result.success
    THEN DOMAIN result = {"repository", "success", "newVersion", "workItems"}
    ELSE /\ DOMAIN result = {"repository", "success", "error"}
         /\ result.error # ""

\* C18: every recorded result is a success with a new version and a work-item
\* list (possibly empty) and no error, or a failure with an error message and
\* neither new version nor work items; and a step that changes the list of
\* results appends one result and leaves the recorded ones as they are, or is
\* the start of a batch, which empties the list.
C18_ResultShapesAndImmutability ==
    /\ [](\A i \in Recorded : ResultShape(processingResults[i]))
    /\ [][processingResults' # processingResults =>
             \/ pc \in {"idle", "done"} /\ processingResults' = <<>>
             \/ /\ Len(processingResults') = Len(processingResults) + 1
                /\ SubSeq(processingResults', 1, Len(processingResults))
                      = processingResults]_vars

\* a success without work items and a failure stand recorded side by side
C18_Witness ==
    /\ Len(processingResults) = 2
    /\ processingResults[1].success
    /\ processingResults[1].workItems = <<>>
    /\ ~processingResults[2].success
    /\ processingResults[2].error = "Main branch not found"

\* the stage a position of the loop body belongs to
StageRank(p) ==
    CASE p = "getMainBranchCommit" -> 1
      [] p \in {"createBranchLookup", "createBranchPost"} -> 2
      [] p = "createTag" -> 3
      [] p \in {"getRepositoryTags", "resolveOldTag", "resolveNewTag", "getCommits"} -> 4
      [] p \in {"getCommitWorkItems", "getWorkItem"} -> 5
      [] OTHER -> 0

\* C19: a step of a repository's run either stays with the repository, in the
\* same stage or the next one and with no result recorded, or records the
\* repository's result and passes to the first stage of the next repository
\* (or ends the batch); the tag stage is entered only by the step that created
\* the branch, the range stage only by the step that created the tag, and a
\* repository starts only when every earlier repository has its result.
C19_StagesInOrder ==
    [][IF pc \in {"idle", "done"}
       THEN pc' = "getMainBranchCommit" /\ run'.idx = 1 /\ processingResults' = <<>>
       ELSE /\ IF Len(processingResults') = Len(processingResults) + 1
               THEN \/ pc' = "done" /\ run.idx = Len(repositories)
                    \/ pc' = "getMainBranchCommit" /\ run'.idx = run.idx + 1
               ELSE /\ processingResults' = processingResults
                    /\ run'.idx = run.idx
                    /\ StageRank(pc') \in {StageRank(pc), StageRank(pc) + 1}
            /\ (StageRank(pc') = 3 /\ run'.idx = run.idx) =>
                  /\ pc = "createBranchPost"
                  /\ ~HasRef(refs[run.idx], BranchName(run.newVersion))
                  /\ HasRef(refs'[run.idx], BranchName(run.newVersion))
            /\ (StageRank(pc') = 4 /\ StageRank(pc) = 3) =>
                  /\ ~HasRef(refs[run.idx], TagRefName(run.newVersion))
                  /\ HasRef(refs'[run.idx], TagRefName(run.newVersion))
            /\ pc' = "getMainBranchCommit" =>
                  Len(processingResults') = run'.idx - 1]_vars

\* the second repository stands in the work-item stage, its branch and tag
\* created, while the result of the first one is recorded and its own is not
C19_Witness ==
    /\ pc = "getWorkItem"
    /\ run.idx = 2
    /\ Len(processingResults) = 1
    /\ HasRef(refs[2], BranchName(run.newVersion))
    /\ HasRef(refs[2], TagRefName(run.newVersion))
    /\ {"getMainBranchCommit", "createBranch", "createTag", "getCommits"}
          \subseteq CallsOf(2)

\* the numbers that follow a '#' in a comment (an AB# token, in either case,
\* ends with one)
NumbersAfterHash(comment) ==
    {DigitRun(comment, i + 1) :
        i \in {j \in 1..Len(comment) : comment[j] = "#" /\ DigitAt(comment, j + 1)}}

\* C20: for every commit of the range, the extracted ids hold every explicit
\* link of the commit, every number following a '#' or 'AB#' in its message,
\* and, when the per-commit request is answered, every id it returns,
\* whatever the other passes found.
C20_EveryPassContributes ==
    (fnIn.fn = "extract" /\ fnOut.done) =>
        \A c \in Range(fnIn.commits) :
            /\ Range(CommitWorkItems(c)) \subseteq Range(fnOut.value)
            /\ NumbersAfterHash(CommitComment(c)) \subseteq Range(fnOut.value)
            /\ fnIn.outcome = "ok" =>
                  Range(CommitLinkedIds(c)) \subseteq Range(fnOut.value)

\* a commit with an explicit link and two numbers in its message and a commit
\* known only to the per-commit request: all four ids were extracted
C20_Witness ==
    /\ fnIn.fn = "extract"
    /\ fnIn.commits = <<"c1", "c3">>
    /\ fnIn.outcome = "ok"
    /\ fnOut.done
    /\ {<<"3", "0", "0">>, <<"1", "0", "0">>, <<"2", "0", "0">>, <<"7">>}
          \subseteq Range(fnOut.value)

\* C21: the per-commit and the per-pull-request lookup never raise and return
\* the linked ids, or the empty list when the request failed after its
\* retries; and in a range where some per-commit lookups fail, the extracted
\* ids still hold the explicit links and message numbers of every commit and
\* what the lookups that were answered returned.
C21_LookupsNeverRaise ==
    /\ (fnIn.fn = "getCommitWorkItems" /\ fnOut.done) =>
          /\ ~fnOut.value.raised
          /\ fnOut.value.value = IF fnIn.outcome = "ok"
                                 THEN CommitLinkedIds(fnIn.commitId) ELSE <<>>
    /\ (fnIn.fn = "getPullRequestWorkItems" /\ fnOut.done) =>
          /\ ~fnOut.value.raised
          /\ fnOut.value.value = IF fnIn.outcome = "ok"
                                 THEN PullRequestLinkedIds(fnIn.pullRequestId)
                                 ELSE <<>>
    /\ (fnIn.fn = "extractEach" /\ fnOut.done) =>
          \A k \in 1..Len(fnIn.commits) :
              /\ Range(CommitWorkItems(fnIn.commits[k])) \subseteq Range(fnOut.value)
              /\ NumbersAfterHash(CommitComment(fnIn.commits[k]))
                    \subseteq Range(fnOut.value)
              /\ fnIn.outcomes[k] = "ok" =>
                    Range(CommitLinkedIds(fnIn.commits[k])) \subseteq Range(fnOut.value)

\* the lookup of the first commit failed and that of the second was answered:
\* the ids of the first commit's record and message and the linked id of the
\* second are all there
C21_Witness ==
    /\ fnIn.fn = "extractEach"
    /\ fnIn.commits = <<"c1", "c3">>
    /\ fnIn.outcomes[1] # "ok"
    /\ fnIn.outcomes[2] = "ok"
    /\ fnOut.done
    /\ Range(fnOut.value) =
          {<<"3", "0", "0">>, <<"4", "2">>, <<"1", "0", "0">>, <<"2", "0", "0">>, <<"7">>}

InProgress == pc \notin {"idle", "done"}

\* C22 as stated: while a repository has a stage in progress no result of it
\* is in the result list and no work item of it is in the batch accumulator,
\* which holds the work items of the recorded successes and nothing else.
C22_AccumulatorWrittenAfterStages ==
    InProgress =>
        /\ Len(processingResults) = run.idx - 1
        /\ run.allWorkItems = SuccessItems(processingResults)

\* C22, amended: a result is appended only when the stages of its repository
\* are over and the consolidated work items of the store are set only at the
\* end of the batch, while the accumulator of the batch takes each work item
\* when it is fetched: it holds the work items of the recorded successes
\* followed by those fetched so far for the repository in progress.
C22_ResultsAfterStagesItemsWhenFetched ==
    /\ Len(processingResults) = ResultsDue
    /\ pc # "done" => consolidatedWorkItems = <<>>
    /\ InProgress =>
          run.allWorkItems = SuccessItems(processingResults) \o run.workItems
    /\ pc = "done" => consolidatedWorkItems = Dedup(SuccessItems(processingResults))

\* the second repository is fetching its work items, one is already in the
\* accumulator behind those of the first repository, and its result is not
\* recorded yet
C22_Witness ==
    /\ pc = "getWorkItem"
    /\ run.idx = 2
    /\ run.workItems # <<>>
    /\ Len(processingResults) = 1
    /\ processingResults[1].success
    /\ processingResults[1].workItems # <<>>
    /\ run.allWorkItems = processingResults[1].workItems \o run.workItems

\* C24: in retryAsync the k-th wait, which stands between attempt k and
\* attempt k+1, lasts delayMs * backoffMultiplier^(k-1) milliseconds (1000,
\* then 2000 with the defaults); every failed attempt but the last allowed
\* one is followed by a wait, and nothing is waited for after the last
\* allowed attempt failed nor after an attempt that succeeded.
C24_BackoffDelays ==
    fnIn.fn = "retryAsync" =>
        /\ Len(Delays) = IF fnOut.done THEN Invoked - 1 ELSE Invoked
        /\ \A k \in 1..Len(Delays) :
              /\ k < fnIn.maxAttempts
              /\ fnIn.attempts[k] # "ok"
              /\ Delays[k] = fnIn.delayMs * Pow(fnIn.backoffMultiplier, k - 1)
        /\ (fnIn.delayMs = 1000 /\ fnIn.backoffMultiplier = 2) =>
              IsPrefix(Delays, <<1000, 2000>>)

\* three failed attempts with the defaults: 1000 ms and 2000 ms were waited
\* for and the error was raised with no third wait
C24_Witness ==
    /\ fnIn.fn = "retryAsync"
    /\ fnIn.maxAttempts = 3
    /\ fnIn.delayMs = delayMs
    /\ fnIn.backoffMultiplier = backoffMultiplier
    /\ fnOut.done
    /\ fnOut.raised
    /\ fnOut.invoked = 3
    /\ fnOut.delays = <<1000, 2000>>

\* C23: in handleExport the CSV export comes first: whenever the Integration
\* Build field of a work item is updated, the export has already happened.
C23_ExportBeforeUpdates ==
    fnIn.fn = "handleExport" =>
        \A j \in 1..Len(Events) :
            Events[j].op = "updateWorkItem" =>
                \E i \in 1..(j - 1) : Events[i].op = "exportToCSV"

\* C25: a repository recorded as a success had both the release branch
\* refs/heads/release/{newVersion}.x and the tag of newVersion created on the
\* remote by the requests of its own run, and both are on the remote.
C25_SuccessMeansBranchAndTagCreated ==
    \A i \in Recorded :
        processingResults[i].success =>
            /\ thrown[i].created = {NewBranchOf(i), NewTagOf(i)}
            /\ {"createBranch", "createTag"} \subseteq CallsOf(i)
            /\ HasRef(refs[i], BranchName(processingResults[i].newVersion))
            /\ HasRef(refs[i], TagRefName(processingResults[i].newVersion))

\* a success whose range stage failed: no work item, and the branch and the
\* tag were created by the run
C25_Witness ==
    /\ Len(processingResults) >= 1
    /\ processingResults[1].success
    /\ processingResults[1].workItems = <<>>
    /\ "getCommits" \in thrown[1].caught
    /\ thrown[1].created = {NewBranchOf(1), NewTagOf(1)}
    /\ HasRef(refs[1], NewBranchOf(1))
    /\ HasRef(refs[1], NewTagOf(1))

\* C26: the work-item list recorded for a repository never holds two records
\* with the same work-item id, whatever the sources of the ids were.
C26_NoIdTwicePerRepository ==
    \A i \in Recorded :
        processingResults[i].success => NoIdTwice(processingResults[i].workItems)

\* C27: the release branch and the tag a run created for a repository point
\* to the same commit, also when main advanced between the resolution of the
\* main commit and the lookup of the source branch by createBranch.
C27_BranchAndTagOnSameCommit ==
    \A i \in Recorded :
        processingResults[i].success =>
            FindRef(refs[i], NewBranchOf(i)).objectId =
                FindRef(refs[i], NewTagOf(i)).target

\* the batch is over: a result for every repository, the last one included,
\* the consolidated work items set and isProcessing back to false
BatchOver ==
    /\ pc = "done"
    /\ ~isProcessing
    /\ Len(processingResults) = Len(repositories)
    /\ consolidatedWorkItems = Dedup(run.allWorkItems)

\* C28: every batch terminates: whatever fails, a batch that has started
\* reaches the state where a result is recorded for the last repository, the
\* consolidated work items are set and isProcessing is false again; and
\* isProcessing is true exactly from the start of the batch until then.
C28_EveryBatchTerminates ==
    /\ [](isProcessing <=> InProgress)
    /\ [](pc = "done" => BatchOver)
    /\ (InProgress ~> BatchOver)

\* a batch of two repositories that ended with both of them failed
C28_Witness ==
    /\ BatchOver
    /\ Len(repositories) = 2
    /\ ~processingResults[1].success
    /\ ~processingResults[2].success

\* C29: when the current version of a repository is what getLatestReleaseVersion
\* returned for the remote as it is, the new version of either bump is greater,
\* by major then minor, than the version of every branch named
\* refs/heads/release/M.m.x, and the new branch name is not the name of a ref.
C29_NewVersionAboveEveryRelease ==
    (fnIn.fn = "loadAndBump" /\ fnOut.done) =>
        /\ \E p \in (0..MaxVer + 1) \X (0..MaxVer + 1) :
              /\ fnOut.value.newVersion = VersionString(p[1], p[2])
              /\ \A q \in NamedVersions(fnIn.repoRefs) :
                    \/ q[1] < p[1]
                    \/ (q[1] = p[1] /\ q[2] < p[2])
        /\ ~HasRef(fnIn.repoRefs, fnOut.value.branchName)

\* does text hold a "<" with a ">" somewhere after it
HasTag(text) == \E i, j \in 1..Len(text) : i < j /\ text[i] = "<" /\ text[j] = ">"

\* C30: what stripHtmlTags returns holds no "<" followed by a ">", for nested
\* tags and for encoded tags as well, and its loop ends: it makes no more
\* turns than the input has characters, plus one.
C30_NoTagInResult ==
    fnIn.fn = "stripHtmlTags" =>
        /\ StripLocals.passes <= Len(fnIn.html) + 1
        /\ ~fnOut.done => Len(StripLocals.result) <= Len(fnIn.html)
        /\ fnOut.done => ~HasTag(fnOut.value)

====
